---- MODULE Spec2Model ----
(***************************************************************************)
(* Garage door driver (class GarageDoorTrigger), revision with retry and   *)
(* open-time alarm: src/unnamed/part_000.                                  *)
(*                                                                         *)
(* Every async handler of the driver is a thread of control that runs      *)
(* atomically from one await to the next; between two awaits any other     *)
(* handler, timer callback or event may run.  A call of setCapabilityValue *)
(* takes effect when its await resumes.  JavaScript values of the          *)
(* capabilities are the strings "null", "true", "false".                   *)
(*                                                                         *)
(* Time is counted in milliseconds and advances in steps of TickMs.  A     *)
(* Zigbee write (writeBool, writeData32) may stay outstanding for any      *)
(* time; an await on the host (setCapabilityValue, a flow card) resumes    *)
(* before the clock advances.  The device declares all its capabilities    *)
(* (hasCapability is true).                                                *)
(***************************************************************************)
EXTENDS Integers, Sequences, FiniteSets, TLC

\* ---- bounds of the model: events in one behaviour ----
MaxRequests == 2        \* trigger requests (SpecCycle, Spec)
MaxReports == 2         \* contact reports, data point 3 (SpecCycle, Spec)
MaxStatusReports == 1   \* status reports, data point 12 (Spec)
MaxSettings == 1        \* settings changes (Spec)
PulseRequests == 1      \* trigger requests (SpecPulse)
PulseReports == 1       \* contact reports (SpecPulse)
OpenReports == 2        \* contact reports (SpecOpen)
OpenSettings == 1       \* settings changes (SpecOpen)

\* ---- constants of the program ----
RetryDelayMs == 500
RecoveryDelayMs == 3000
DefaultRunTime == 20
DefaultCountdown == 0
DefaultOpenAlarm == 0

\* ---- the clock ----
TickMs == RetryDelayMs            \* every duration is a multiple of it

dataPoints == [doorTrigger |-> 1, countdown |-> 2, garageDoorContact |-> 3,
               runtime |-> 4, openAlarmTime |-> 5, status |-> 12]

\* ---- values the inputs are drawn from ----
CountDownVals == {0, 1}
RunTimeVals == {1, 2}
OpenAlarmVals == {0, 1, 2}
SettingsVals == [count_down : CountDownVals, run_time : RunTimeVals,
                 open_alarm_time : OpenAlarmVals]
WriteOutcomes == {"ok", "timeout", "error"}
ContactPayloads == {[dp |-> 3, datatype |-> 1, data |-> <<0>>],
                    [dp |-> 3, datatype |-> 1, data |-> <<1>>]}
\* Bytes of a payload: the least, the greatest and those around the sign bit.
ByteVals == {0, 1, 128, 255}
\* Status reports: an enum value, or a number of one to four bytes.
StatusPayloads ==
    {[dp |-> 12, datatype |-> 4, data |-> <<0>>]} \cup
    {[dp |-> 12, datatype |-> 2, data |-> d] : d \in UNION {[1..n -> ByteVals] : n \in 1..4}}
NoPayload == [dp |-> 0, datatype |-> 0, data |-> <<>>]

VARIABLES
    contact,              \* capability alarm_contact
    button,               \* capability garage_Door_Button
    status,               \* capability garage_Door_State_Capability
    settings,             \* what getSettings() returns
    cycle,                \* per trigger request: its thread of control
    nreq,                 \* trigger requests made so far
    delayedTriggerTimer,  \* cycle whose pending countdown timer the field holds, or 0
    safetyTimer,          \* cycle whose pending safety timer the field holds, or 0
    openAlarmTimer,       \* the timer the field holds: [on, rem, dur]
    report,               \* per contact report: its handleDataPoint thread
    nrep,                 \* contact reports received so far
    sreport,              \* per status report: its handleDataPoint thread
    nsrep,                \* status reports received so far
    setting,              \* per settings change: its onSettings thread
    nset,                 \* settings changes made so far
    limit,                \* the events of this behaviour: [req, rep, srep, set, del, trip]
    deleted,              \* onDeleted has run
    trip,                 \* where limit.trip: "open" after a contact report 'open',
                          \* "closed" after a report 'closed' that followed it with
                          \* no other report, request, timer or cycle step between
    openFor,              \* ms for which alarm_contact has been true, counted while
                          \* the open-time alarm is enabled, up to OpenForCap
    openAlerts,           \* open-time alerts emitted since alarm_contact became true
    oatChanged            \* open_alarm_time was changed since alarm_contact became true

vars == <<contact, button, status, settings, cycle, nreq, delayedTriggerTimer,
          safetyTimer, openAlarmTimer, report, nrep, sreport, nsrep, setting,
          nset, limit, deleted, trip, openFor, openAlerts, oatChanged>>

doorVars == <<contact, button, status>>
cycleVars == <<cycle, nreq, delayedTriggerTimer, safetyTimer>>
reportVars == <<report, nrep>>
sreportVars == <<sreport, nsrep>>
settingVars == <<setting, nset, limit, deleted>>
openVars == <<openFor, openAlerts, oatChanged>>

\* ---- JavaScript helpers ----
Not(b) == IF b = "true" THEN "false" ELSE "true"
BoolStr(b) == IF b THEN "true" ELSE "false"
\* parseInt(v) || d, for a setting that holds a number
ParseIntOr(v, d) == IF v = 0 THEN d ELSE v

\* value << 8: the operand is taken as a 32-bit integer, the result is a
\* signed 32-bit integer (bit 23 of the operand becomes the sign).
ShiftLeft8(value) ==
    LET low == value % 16777216
    IN IF low >= 8388608 THEN (low - 16777216) * 256 ELSE low * 256

RECURSIVE convertFrom(_, _, _)
convertFrom(chunks, i, value) ==
    IF i > Len(chunks) THEN value
    ELSE convertFrom(chunks, i + 1, ShiftLeft8(value) + chunks[i])

convertMultiByte(chunks) == convertFrom(chunks, 1, 0)

\* The decoded value of a data point, tagged with its JavaScript type.
getDataValue(dpValue) ==
    CASE dpValue.datatype = 0 -> [type |-> "bytes", v |-> dpValue.data]
      [] dpValue.datatype = 1 -> [type |-> "bool", v |-> (dpValue.data[1] = 1)]
      [] dpValue.datatype = 2 -> [type |-> "number", v |-> convertMultiByte(dpValue.data)]
      [] dpValue.datatype = 4 -> [type |-> "number", v |-> dpValue.data[1]]
      [] OTHER -> [type |-> "bytes", v |-> dpValue.data]

\* !!value
Truthy(val) ==
    CASE val.type = "bool" -> val.v
      [] val.type = "number" -> val.v # 0
      [] OTHER -> TRUE

\* value.toString()
toString(val) ==
    CASE val.type = "number" -> ToString(val.v)
      [] val.type = "bool" -> BoolStr(val.v)
      [] OTHER -> "bytes"

\* ---- threads of control ----
\* A trigger request and everything that follows from it: triggerDoorPulse,
\* the countdown timer, sendPulse, the retry delay, the fault recovery timer,
\* the safety timer and its callback.
CyclePcs == {"idle", "await_cd", "countdown", "await_moving", "await_write1",
             "retry_delay", "await_write2", "await_error", "recovery",
             "await_recover", "safety", "await_button", "await_alarm",
             "cancelled", "done"}
TimerPcs == {"countdown", "retry_delay", "recovery", "safety"}
HostAwaitPcs == {"await_cd", "await_moving", "await_error", "await_recover",
                 "await_button", "await_alarm"}

Max(a, b) == IF a > b THEN a ELSE b
Cycles == 1..Max(MaxRequests, PulseRequests)
Reports == 1..Max(Max(MaxReports, PulseReports), OpenReports)
StatusReports == 1..MaxStatusReports
SettingsChanges == 1..Max(MaxSettings, OpenSettings)

IdleCycle == [pc |-> "idle", exp |-> "none", rem |-> 0, dur |-> 0, cur |-> "none",
              w |-> 0, r1 |-> "none", r2 |-> "none", fired |-> 0, alerts |-> 0,
              overlap |-> FALSE, restart |-> FALSE, reported |-> FALSE, seen |-> {},
              firings |-> 0, heard |-> 0]
NoTimer == [on |-> FALSE, rem |-> 0, dur |-> 0]
IdleReport == [pc |-> "idle", isOpen |-> FALSE]
IdleStatusReport == [pc |-> "idle", data |-> NoPayload, value |-> getDataValue(NoPayload)]
IdleSetting == [pc |-> "idle", new |-> [count_down |-> 0, run_time |-> 0, open_alarm_time |-> 0],
                changedKeys |-> <<>>, i |-> 0, sent |-> <<>>, failed |-> 0, early |-> FALSE,
                ret |-> "none"]

\* What the record of a cycle keeps beside its place (pc) and the time left of
\* its pending timer (rem, of dur): the expected end state (exp), the value a
\* callback read and still uses (cur), the pulse writes issued (w) and how they settled (r1,
\* r2), the runs of its safety callback (fired) and its runtime alerts
\* (alerts); whether at its request an earlier cycle was unfinished (overlap)
\* and whether one was in its countdown, pulse write or confirmation wait
\* (restart); whether a contact report arrived since its request or was being
\* handled then (reported); and, while it is the latest request, the values
\* reported since its pulse and before a safety callback ran (seen), and the
\* safety callbacks run (firings) and runtime alerts emitted (heard) by any
\* cycle since its pulse.

\* this.homey.clearTimeout(handle): the pending timer of cycle k, if the
\* handle holds one (k # 0), will not run.
clearTimeout(cyc, k) ==
    IF k # 0 THEN [cyc EXCEPT ![k].pc = "cancelled", ![k].rem = 0, ![k].dur = 0] ELSE cyc

\* The handle of a field after the timer of cycle c has fired.
Fired(handle, c) == IF handle = c THEN 0 ELSE handle

\* The state after construction, but for the settings.
Start ==
    /\ contact = "null"
    /\ button = "null"
    /\ status = "null"
    /\ cycle = [c \in Cycles |-> IdleCycle]
    /\ nreq = 0
    /\ delayedTriggerTimer = 0
    /\ safetyTimer = 0
    /\ openAlarmTimer = NoTimer
    /\ report = [r \in Reports |-> IdleReport]
    /\ nrep = 0
    /\ sreport = [s \in StatusReports |-> IdleStatusReport]
    /\ nsrep = 0
    /\ setting = [s \in SettingsChanges |-> IdleSetting]
    /\ nset = 0
    /\ deleted = FALSE
    /\ trip = "none"
    /\ openFor = 0
    /\ openAlerts = 0
    /\ oatChanged = FALSE

Init ==
    /\ Start
    /\ settings \in SettingsVals
    /\ limit = [req |-> MaxRequests, rep |-> MaxReports, srep |-> MaxStatusReports,
                set |-> MaxSettings, del |-> TRUE, trip |-> FALSE]

\* The trigger cycle alone: the open-time alarm is disabled.
InitCycle ==
    /\ Start
    /\ settings \in [count_down : CountDownVals, run_time : RunTimeVals,
                     open_alarm_time : {0}]
    /\ limit = [req |-> MaxRequests, rep |-> MaxReports, srep |-> 0, set |-> 0,
                del |-> FALSE, trip |-> FALSE]

\* One trigger cycle.
InitPulse ==
    /\ Start
    /\ settings \in [count_down : CountDownVals, run_time : {1}, open_alarm_time : {0}]
    /\ limit = [req |-> PulseRequests, rep |-> PulseReports, srep |-> 0, set |-> 0,
                del |-> FALSE, trip |-> FALSE]

\* The open-time alarm alone: no trigger request is made.
InitOpen ==
    /\ Start
    /\ settings \in [count_down : {0}, run_time : {1}, open_alarm_time : OpenAlarmVals]
    /\ limit = [req |-> 0, rep |-> OpenReports, srep |-> 0, set |-> OpenSettings,
                del |-> FALSE, trip |-> FALSE]

\* The handler of a contact report has not finished.
ReportsInFlight == \E r \in Reports : report[r].pc \notin {"idle", "done"}

\* A cycle is under way.
Unfinished == \E k \in Cycles : cycle[k].pc \notin {"idle", "done", "cancelled"}
\* A cycle is in its countdown, its pulse write or its confirmation wait.
Moving == \E k \in Cycles : cycle[k].pc \in {"await_cd", "countdown", "await_moving",
                                              "await_write1", "retry_delay",
                                              "await_write2", "safety"}

\* ---- triggerDoorPulse ----
\* The button listener or the flow action calls triggerDoorPulse, which runs
\* to its first await: of setCapabilityValue('moving') in sendPulse when there
\* is no countdown, of setCapabilityValue('2') otherwise.
triggerDoorPulse ==
    /\ ~deleted
    /\ nreq < limit.req
    /\ LET c == nreq + 1
           stopped == clearTimeout(clearTimeout(cycle, delayedTriggerTimer), safetyTimer)
           cleared == [k \in Cycles |-> [stopped[k] EXCEPT !.seen = {}, !.firings = 0,
                                                           !.heard = 0]]
           countdownSeconds == ParseIntOr(settings.count_down, DefaultCountdown)
       IN /\ nreq' = c
          /\ delayedTriggerTimer' = 0
          /\ safetyTimer' = 0
          /\ cycle' = IF countdownSeconds <= 0
                      THEN [cleared EXCEPT ![c].pc = "await_moving",
                                           ![c].overlap = Unfinished,
                                           ![c].restart = Moving,
                                           ![c].reported = ReportsInFlight]
                      ELSE [cleared EXCEPT ![c].pc = "await_cd",
                                           ![c].dur = countdownSeconds * 1000,
                                           ![c].overlap = Unfinished,
                                           ![c].restart = Moving,
                                           ![c].reported = ReportsInFlight]
    /\ trip' = "none"
    /\ UNCHANGED <<doorVars, settings, openAlarmTimer, reportVars, sreportVars,
                   settingVars, openVars>>

\* setCapabilityValue('2') has resumed: the countdown timer is set, and the
\* field is overwritten without a clearTimeout.
setDelayedTriggerTimer(c) ==
    /\ cycle[c].pc = "await_cd"
    /\ status' = "2"
    /\ cycle' = [cycle EXCEPT ![c].pc = "countdown", ![c].rem = cycle[c].dur]
    /\ delayedTriggerTimer' = c
    /\ trip' = "none"
    /\ UNCHANGED <<contact, button, settings, nreq, safetyTimer, openAlarmTimer,
                   reportVars, sreportVars, settingVars, openVars>>

\* The countdown timer fires: sendPulse runs to its first await.
delayedTriggerFires(c) ==
    /\ cycle[c].pc = "countdown"
    /\ cycle[c].rem = 0
    /\ cycle' = [cycle EXCEPT ![c].pc = "await_moving", ![c].dur = 0]
    /\ delayedTriggerTimer' = Fired(delayedTriggerTimer, c)
    /\ trip' = "none"
    /\ UNCHANGED <<doorVars, settings, nreq, safetyTimer, openAlarmTimer,
                   reportVars, sreportVars, settingVars, openVars>>

\* The values of the contact reports whose handler has not finished.
InFlightValues ==
    {BoolStr(report[r].isOpen) : r \in {q \in Reports : report[q].pc \notin {"idle", "done"}}}

\* ---- sendPulse ----
\* setCapabilityValue('moving') has resumed: the expected end state is
\* computed and the pulse is written (first attempt).
sendPulseWrite(c) ==
    /\ cycle[c].pc = "await_moving"
    /\ status' = "moving"
    /\ LET isCurrentlyOpen == (contact = "true")
           expectedEndState == Not(BoolStr(isCurrentlyOpen))
       IN cycle' = [cycle EXCEPT ![c].pc = "await_write1", ![c].exp = expectedEndState,
                                 ![c].w = 1,
                                 ![c].seen = IF c = nreq THEN InFlightValues ELSE {}]
    /\ trip' = "none"
    /\ UNCHANGED <<contact, button, settings, nreq, delayedTriggerTimer, safetyTimer,
                   openAlarmTimer, reportVars, sreportVars, settingVars, openVars>>

\* startSafetyTimer(expectedState), called by cycle c whose record is in cyc.
startSafetyTimer(cyc, c) ==
    LET cleared == clearTimeout(cyc, safetyTimer)
        runTimeSetting == ParseIntOr(settings.run_time, DefaultRunTime)
    IN /\ cycle' = [cleared EXCEPT ![c].pc = "safety",
                                   ![c].rem = runTimeSetting * 1000,
                                   ![c].dur = runTimeSetting * 1000]
       /\ safetyTimer' = c

\* (mutant) a timeout taken for an error
IsTimeout_Never(outcome) == FALSE

\* The test of the catch clause of the first write:
\* err.message.includes('Timeout').
IsTimeout(outcome) == outcome = "timeout"

\* The first writeBool has settled: acknowledged, timed out, or failed with
\* another error, after which the 500 ms delay of the retry starts.
firstWriteSettles(c) ==
    /\ cycle[c].pc = "await_write1"
    /\ \E outcome \in WriteOutcomes :
         LET cyc1 == [cycle EXCEPT ![c].r1 = outcome]
         IN IF outcome = "ok" \/ IsTimeout(outcome)
            THEN startSafetyTimer(cyc1, c)
            ELSE /\ cycle' = [cyc1 EXCEPT ![c].pc = "retry_delay",
                                          ![c].rem = RetryDelayMs,
                                          ![c].dur = RetryDelayMs]
                 /\ UNCHANGED safetyTimer
    /\ trip' = "none"
    /\ UNCHANGED <<doorVars, settings, nreq, delayedTriggerTimer, openAlarmTimer,
                   reportVars, sreportVars, settingVars, openVars>>

\* The 500 ms delay is over: the pulse is written again.
retryWrite(c) ==
    /\ cycle[c].pc = "retry_delay"
    /\ cycle[c].rem = 0
    /\ cycle' = [cycle EXCEPT ![c].pc = "await_write2", ![c].w = cycle[c].w + 1,
                              ![c].dur = 0]
    /\ trip' = "none"
    /\ UNCHANGED <<doorVars, settings, nreq, delayedTriggerTimer, safetyTimer,
                   openAlarmTimer, reportVars, sreportVars, settingVars, openVars>>

\* (mutant) a failed retry is retried
retryWriteSettles_Again(c) ==
    /\ cycle[c].pc = "await_write2"
    /\ cycle[c].w < 3
    /\ \E outcome \in WriteOutcomes :
         LET cyc1 == [cycle EXCEPT ![c].r2 = outcome]
         IN IF outcome = "ok"
            THEN startSafetyTimer(cyc1, c)
            ELSE /\ cycle' = [cyc1 EXCEPT ![c].pc = "retry_delay",
                                          ![c].rem = RetryDelayMs,
                                          ![c].dur = RetryDelayMs]
                 /\ UNCHANGED safetyTimer
    /\ trip' = "none"
    /\ UNCHANGED <<doorVars, settings, nreq, delayedTriggerTimer, openAlarmTimer,
                   reportVars, sreportVars, settingVars, openVars>>

\* (mutant) a failed retry falls through to startSafetyTimer
retryWriteSettles_Arms(c) ==
    /\ cycle[c].pc = "await_write2"
    /\ \E outcome \in WriteOutcomes :
         startSafetyTimer([cycle EXCEPT ![c].r2 = outcome], c)
    /\ trip' = "none"
    /\ UNCHANGED <<doorVars, settings, nreq, delayedTriggerTimer, openAlarmTimer,
                   reportVars, sreportVars, settingVars, openVars>>

\* The retry has settled.  Whatever it throws, a timeout included, is caught
\* by catch (retryErr): setCapabilityValue('error') is called and awaited.
retryWriteSettles(c) ==
    /\ cycle[c].pc = "await_write2"
    /\ \E outcome \in WriteOutcomes :
         LET cyc1 == [cycle EXCEPT ![c].r2 = outcome]
         IN IF outcome = "ok"
            THEN startSafetyTimer(cyc1, c)
            ELSE /\ cycle' = [cyc1 EXCEPT ![c].pc = "await_error"]
                 /\ UNCHANGED safetyTimer
    /\ trip' = "none"
    /\ UNCHANGED <<doorVars, settings, nreq, delayedTriggerTimer, openAlarmTimer,
                   reportVars, sreportVars, settingVars, openVars>>

\* (mutant) no recovery timer is set
setRecoveryTimer_None(c) ==
    /\ cycle[c].pc = "await_error"
    /\ status' = "error"
    /\ cycle' = [cycle EXCEPT ![c].pc = "done"]
    /\ trip' = "none"
    /\ UNCHANGED <<contact, button, settings, nreq, delayedTriggerTimer, safetyTimer,
                   openAlarmTimer, reportVars, sreportVars, settingVars, openVars>>

\* setCapabilityValue('error') has resumed: the recovery timer is set (its
\* handle is kept nowhere) and sendPulse returns.
setRecoveryTimer(c) ==
    /\ cycle[c].pc = "await_error"
    /\ status' = "error"
    /\ cycle' = [cycle EXCEPT ![c].pc = "recovery", ![c].rem = RecoveryDelayMs,
                              ![c].dur = RecoveryDelayMs]
    /\ trip' = "none"
    /\ UNCHANGED <<contact, button, settings, nreq, delayedTriggerTimer, safetyTimer,
                   openAlarmTimer, reportVars, sreportVars, settingVars, openVars>>

\* The recovery timer fires: the contact value is read and
\* setCapabilityValue(currentState ? 'open' : 'closed') is called.
recoveryFires(c) ==
    /\ cycle[c].pc = "recovery"
    /\ cycle[c].rem = 0
    /\ cycle' = [cycle EXCEPT ![c].pc = "await_recover", ![c].cur = contact,
                              ![c].dur = 0]
    /\ trip' = "none"
    /\ UNCHANGED <<doorVars, settings, nreq, delayedTriggerTimer, safetyTimer,
                   openAlarmTimer, reportVars, sreportVars, settingVars, openVars>>

\* The status is set from the value read when the timer fired.
recoverySets(c) ==
    /\ cycle[c].pc = "await_recover"
    /\ status' = IF cycle[c].cur = "true" THEN "open" ELSE "closed"
    /\ cycle' = [cycle EXCEPT ![c].pc = "done", ![c].cur = "none"]
    /\ trip' = "none"
    /\ UNCHANGED <<contact, button, settings, nreq, delayedTriggerTimer, safetyTimer,
                   openAlarmTimer, reportVars, sreportVars, settingVars, openVars>>

\* ---- the callback of the safety timer ----
\* currentContact !== expectedState
Discrepancy(currentContact, expectedState) == currentContact # expectedState

\* The safety timer fires: without a discrepancy the callback is over, with
\* one it calls setCapabilityValue('garage_Door_Button', currentContact).
safetyFires(c) ==
    /\ cycle[c].pc = "safety"
    /\ cycle[c].rem = 0
    /\ LET currentContact == contact
           ran == [k \in Cycles |-> IF k = nreq /\ cycle[k].w > 0
                                    THEN [cycle[k] EXCEPT !.firings = @ + 1]
                                    ELSE cycle[k]]
       IN cycle' = [ran EXCEPT
                      ![c].pc = IF Discrepancy(currentContact, cycle[c].exp)
                                THEN "await_button" ELSE "done",
                      ![c].cur = IF Discrepancy(currentContact, cycle[c].exp)
                                 THEN currentContact ELSE "none",
                      ![c].fired = cycle[c].fired + 1,
                      ![c].dur = 0]
    /\ safetyTimer' = Fired(safetyTimer, c)
    /\ trip' = "none"
    /\ UNCHANGED <<doorVars, settings, nreq, delayedTriggerTimer, openAlarmTimer,
                   reportVars, sreportVars, settingVars, openVars>>

\* The button has been forced to the contact value: setCapabilityValue('1').
safetySetsButton(c) ==
    /\ cycle[c].pc = "await_button"
    /\ button' = cycle[c].cur
    /\ cycle' = [cycle EXCEPT ![c].pc = "await_alarm"]
    /\ trip' = "none"
    /\ UNCHANGED <<contact, status, settings, nreq, delayedTriggerTimer, safetyTimer,
                   openAlarmTimer, reportVars, sreportVars, settingVars, openVars>>

\* The status is Alarm ('1') and the runtime alert goes to the flow card
\* runtime_alarm_triggered.  A card that is not found or whose trigger throws
\* is a failed delivery of the alert: it is logged and changes nothing.
safetyAlerts(c) ==
    /\ cycle[c].pc = "await_alarm"
    /\ status' = "1"
    /\ LET told == [k \in Cycles |-> IF k = nreq /\ cycle[k].w > 0
                                      THEN [cycle[k] EXCEPT !.heard = @ + 1]
                                      ELSE cycle[k]]
       IN cycle' = [told EXCEPT ![c].pc = "done", ![c].cur = "none",
                                ![c].alerts = cycle[c].alerts + 1]
    /\ trip' = "none"
    /\ UNCHANGED <<contact, button, settings, nreq, delayedTriggerTimer, safetyTimer,
                   openAlarmTimer, reportVars, sreportVars, settingVars, openVars>>

\* ---- the open-time alarm ----
startOpenAlarmTimer ==
    LET openAlarmTimeSetting == ParseIntOr(settings.open_alarm_time, DefaultOpenAlarm)
    IN IF openAlarmTimeSetting <= 0
       THEN NoTimer
       ELSE [on |-> TRUE, rem |-> openAlarmTimeSetting * 1000,
             dur |-> openAlarmTimeSetting * 1000]

stopOpenAlarmTimer == NoTimer

\* The callback of the open-time alarm timer: the alert goes to the flow card
\* opentime_alarm_triggered if the contact is still open.
openAlarmFires ==
    /\ openAlarmTimer.on
    /\ openAlarmTimer.rem = 0
    /\ LET isStillOpen == (contact = "true")
       IN openAlerts' = IF isStillOpen THEN openAlerts + 1 ELSE openAlerts
    /\ openAlarmTimer' = NoTimer
    /\ trip' = "none"
    /\ UNCHANGED <<doorVars, settings, cycleVars, reportVars, sreportVars,
                   settingVars, openFor, oatChanged>>

\* ---- handleDataPoint, data point 3 (contact) ----
\* A settings change of open_alarm_time is under way.
OatChanging ==
    \E s \in SettingsChanges :
        /\ setting[s].pc = "await_cfg"
        /\ \E k \in 1..Len(setting[s].changedKeys) :
               setting[s].changedKeys[k] = "open_alarm_time"

\* The report arrives: both timers are cleared and
\* setCapabilityValue('alarm_contact', isOpen) is called.
handleContact ==
    /\ ~deleted
    /\ nrep < limit.rep
    /\ \E data \in ContactPayloads :
         LET value == getDataValue(data)
             isOpen == Truthy(value)
             cleared == clearTimeout(clearTimeout(cycle, safetyTimer), delayedTriggerTimer)
         IN /\ data.dp = dataPoints.garageDoorContact
            /\ trip' = IF ~limit.trip \/ ReportsInFlight THEN "none"
                       ELSE IF isOpen THEN "open"
                       ELSE IF trip = "open" THEN "closed" ELSE "none"
            /\ report' = [report EXCEPT ![nrep + 1] = [pc |-> "await_contact",
                                                       isOpen |-> isOpen]]
            /\ cycle' = [c \in Cycles |->
                           IF cleared[c].pc = "idle" THEN cleared[c]
                           ELSE [cleared[c] EXCEPT
                                   !.reported = TRUE,
                                   !.seen = IF c = nreq /\ cycle[c].w > 0
                                                 /\ cycle[c].firings = 0
                                            THEN @ \cup {BoolStr(isOpen)} ELSE @]]
    /\ nrep' = nrep + 1
    /\ safetyTimer' = 0
    /\ delayedTriggerTimer' = 0
    /\ UNCHANGED <<doorVars, settings, nreq, openAlarmTimer, sreportVars,
                   settingVars, openVars>>

\* alarm_contact is set; setCapabilityValue('garage_Door_Button', isOpen).
contactSets(r) ==
    /\ report[r].pc = "await_contact"
    /\ contact' = BoolStr(report[r].isOpen)
    /\ report' = [report EXCEPT ![r].pc = "await_button"]
    /\ IF report[r].isOpen = (contact = "true")
       THEN UNCHANGED openVars
       ELSE /\ openFor' = 0
            /\ openAlerts' = 0
            /\ oatChanged' = (report[r].isOpen /\ OatChanging)
    /\ UNCHANGED <<trip, button, status, settings, cycleVars, openAlarmTimer, nrep,
                   sreportVars, settingVars>>

\* The button is set; setCapabilityValue(isOpen ? 'open' : 'closed').
contactSetsButton(r) ==
    /\ report[r].pc = "await_button"
    /\ button' = BoolStr(report[r].isOpen)
    /\ report' = [report EXCEPT ![r].pc = "await_status"]
    /\ UNCHANGED <<trip, contact, status, settings, cycleVars, openAlarmTimer, nrep,
                   sreportVars, settingVars, openVars>>

\* The status is set and the open-time alarm timer is started or stopped.
contactSetsStatus(r) ==
    /\ report[r].pc = "await_status"
    /\ status' = IF report[r].isOpen THEN "open" ELSE "closed"
    /\ openAlarmTimer' = IF report[r].isOpen THEN startOpenAlarmTimer
                         ELSE stopOpenAlarmTimer
    /\ report' = [report EXCEPT ![r] = [pc |-> "done", isOpen |-> FALSE]]
    /\ UNCHANGED <<trip, contact, button, settings, cycleVars, nrep, sreportVars,
                   settingVars, openVars>>

\* ---- handleDataPoint, data point 12 (status) ----
\* A status report with one of the given payloads arrives:
\* setCapabilityValue(value.toString()) is called.
handleStatusOf(payloads) ==
    /\ ~deleted
    /\ nsrep < limit.srep
    /\ \E data \in payloads :
         /\ data.dp = dataPoints.status
         /\ sreport' = [sreport EXCEPT ![nsrep + 1] =
                          [pc |-> "await_status", data |-> data,
                           value |-> getDataValue(data)]]
    /\ nsrep' = nsrep + 1
    /\ UNCHANGED <<trip, doorVars, settings, cycleVars, openAlarmTimer, reportVars,
                   settingVars, openVars>>

handleStatus == handleStatusOf(StatusPayloads)

statusSets(s) ==
    /\ sreport[s].pc = "await_status"
    /\ status' = toString(sreport[s].value)
    /\ sreport' = [sreport EXCEPT ![s] = [IdleStatusReport EXCEPT !.pc = "done"]]
    /\ UNCHANGED <<trip, contact, button, settings, cycleVars, openAlarmTimer, reportVars,
                   nsrep, settingVars, openVars>>

\* ---- onSettings ----
settingsMap == [count_down |-> dataPoints.countdown, run_time |-> dataPoints.runtime,
                open_alarm_time |-> dataPoints.openAlarmTime]
SettingKeys == <<"count_down", "run_time", "open_alarm_time">>
\* A setting of the device that settingsMap does not hold.
OtherKey == "other"

\* The keys whose value differs, in the order of the settings.
ChangedKeys(old, new) == SelectSeq(SettingKeys, LAMBDA k : old[k] # new[k])

Includes(keys, key) == \E k \in 1..Len(keys) : keys[k] = key

\* if (settingsMap[key])
HasMapping(key) == key \in DOMAIN settingsMap

\* The place of the first key from place i on that settingsMap holds, or
\* Len(keys) + 1: the for loop runs without an await over the other keys.
RECURSIVE NextMapped(_, _)
NextMapped(keys, i) ==
    IF i > Len(keys) \/ HasMapping(keys[i]) THEN i ELSE NextMapped(keys, i + 1)

\* writeData32(settingsMap[key], newSettings[key])
ConfigWrite(key, newSettings) == [dp |-> settingsMap[key], v |-> newSettings[key]]

\* The end of onSettings: the open-time alarm timer is restarted if
\* open_alarm_time changed and the contact is open.
RestartedOpenAlarm(changedKeys) ==
    IF Includes(changedKeys, "open_alarm_time") /\ contact = "true"
    THEN startOpenAlarmTimer ELSE openAlarmTimer

\* The host calls onSettings with the new settings and the changed keys; the
\* first changed key that settingsMap holds is written to its data point
\* with writeData32, and with no such key the handler returns at once.  The
\* host stores the new settings either before the handler runs (early) or
\* after it has returned.
onSettings ==
    /\ ~deleted
    /\ nset < limit.set
    /\ \E newSettings \in SettingsVals, early \in BOOLEAN, other \in {"none", "first", "last"} :
         LET mapped == ChangedKeys(settings, newSettings)
             changedKeys == CASE other = "first" -> <<OtherKey>> \o mapped
                              [] other = "last" -> mapped \o <<OtherKey>>
                              [] OTHER -> mapped
             i == NextMapped(changedKeys, 1)
         IN /\ changedKeys # <<>>
            /\ IF i <= Len(changedKeys)
               THEN /\ setting' = [setting EXCEPT ![nset + 1] =
                                     [pc |-> "await_cfg", new |-> newSettings,
                                      changedKeys |-> changedKeys, i |-> i,
                                      sent |-> <<ConfigWrite(changedKeys[i], newSettings)>>,
                                      failed |-> 0, early |-> early, ret |-> "none"]]
                    /\ settings' = IF early THEN newSettings ELSE settings
                    /\ UNCHANGED openAlarmTimer
               ELSE /\ setting' = [setting EXCEPT ![nset + 1] =
                                     [pc |-> "done", new |-> newSettings,
                                      changedKeys |-> changedKeys, i |-> i,
                                      sent |-> <<>>, failed |-> 0, early |-> early,
                                      ret |-> "true"]]
                    /\ settings' = newSettings
                    /\ openAlarmTimer' = RestartedOpenAlarm(changedKeys)
            /\ oatChanged' = (oatChanged \/ Includes(changedKeys, "open_alarm_time"))
    /\ nset' = nset + 1
    /\ UNCHANGED <<trip, doorVars, cycleVars, reportVars, sreportVars,
                   limit, deleted, openFor, openAlerts>>

\* (mutant) a failed write ends the loop
configWriteSettles_Stops(s) ==
    /\ setting[s].pc = "await_cfg"
    /\ \E outcome \in {"ok", "error"} :
         LET failed == setting[s].failed + (IF outcome = "ok" THEN 0 ELSE 1)
             changedKeys == setting[s].changedKeys
             i == IF outcome = "ok" THEN NextMapped(changedKeys, setting[s].i + 1)
                  ELSE Len(changedKeys) + 1
         IN IF i <= Len(changedKeys)
            THEN /\ setting' = [setting EXCEPT
                                  ![s].i = i,
                                  ![s].failed = failed,
                                  ![s].sent = Append(@, ConfigWrite(changedKeys[i],
                                                                   setting[s].new))]
                 /\ UNCHANGED <<settings, openAlarmTimer>>
            ELSE /\ setting' = [setting EXCEPT ![s].pc = "done", ![s].i = i,
                                               ![s].failed = failed, ![s].ret = "true"]
                 /\ openAlarmTimer' = RestartedOpenAlarm(changedKeys)
                 /\ settings' = IF setting[s].early THEN settings ELSE setting[s].new
    /\ UNCHANGED <<trip, doorVars, cycleVars, reportVars, sreportVars, nset, limit, deleted,
                   openVars>>

\* A writeData32 has settled; a failure is caught and logged.  The next
\* changed key that settingsMap holds is written, or the loop is over: the
\* open-time alarm timer is restarted if open_alarm_time changed and the
\* contact is open, and onSettings returns true.
configWriteSettles(s) ==
    /\ setting[s].pc = "await_cfg"
    /\ \E outcome \in {"ok", "error"} :
         LET failed == setting[s].failed + (IF outcome = "ok" THEN 0 ELSE 1)
             changedKeys == setting[s].changedKeys
             i == NextMapped(changedKeys, setting[s].i + 1)
         IN IF i <= Len(changedKeys)
            THEN /\ setting' = [setting EXCEPT
                                  ![s].i = i,
                                  ![s].failed = failed,
                                  ![s].sent = Append(@, ConfigWrite(changedKeys[i],
                                                                   setting[s].new))]
                 /\ UNCHANGED <<settings, openAlarmTimer>>
            ELSE /\ setting' = [setting EXCEPT ![s].pc = "done", ![s].i = i,
                                               ![s].failed = failed, ![s].ret = "true"]
                 /\ openAlarmTimer' = RestartedOpenAlarm(changedKeys)
                 /\ settings' = IF setting[s].early THEN settings ELSE setting[s].new
    /\ UNCHANGED <<trip, doorVars, cycleVars, reportVars, sreportVars, nset, limit, deleted,
                   openVars>>

\* ---- onDeleted ----
\* The three timers whose handles the device keeps are cleared.  The host
\* calls no handler of a deleted device; what is suspended or scheduled
\* without a handle goes on.
onDeleted ==
    /\ limit.del
    /\ ~deleted
    /\ deleted' = TRUE
    /\ cycle' = clearTimeout(clearTimeout(cycle, safetyTimer), delayedTriggerTimer)
    /\ safetyTimer' = 0
    /\ delayedTriggerTimer' = 0
    /\ openAlarmTimer' = NoTimer
    /\ UNCHANGED <<trip, doorVars, settings, nreq, reportVars, sreportVars, setting, nset,
                   limit, openVars>>

\* ---- the clock ----
HostAwaiting ==
    \/ \E c \in Cycles : cycle[c].pc \in HostAwaitPcs
    \/ \E r \in Reports : report[r].pc \notin {"idle", "done"}
    \/ \E s \in StatusReports : sreport[s].pc = "await_status"

TimerDue ==
    \/ \E c \in Cycles : cycle[c].pc \in TimerPcs /\ cycle[c].rem = 0
    \/ openAlarmTimer.on /\ openAlarmTimer.rem = 0

TimerPending ==
    \/ \E c \in Cycles : cycle[c].pc \in TimerPcs
    \/ openAlarmTimer.on

Min(a, b) == IF a < b THEN a ELSE b

\* openFor is counted up to one tick past the alarm time, and not at all
\* while the alarm is disabled.
OpenForCap ==
    LET t == ParseIntOr(settings.open_alarm_time, DefaultOpenAlarm)
    IN IF t > 0 THEN t * 1000 + TickMs ELSE 0

\* TickMs pass: no timer is due and no await on the host is outstanding.
Tick ==
    /\ ~TimerDue
    /\ ~HostAwaiting
    /\ TimerPending \/ (contact = "true" /\ openFor < OpenForCap)
    /\ cycle' = [c \in Cycles |->
                   IF cycle[c].pc \in TimerPcs
                   THEN [cycle[c] EXCEPT !.rem = @ - TickMs] ELSE cycle[c]]
    /\ openAlarmTimer' = IF openAlarmTimer.on
                         THEN [openAlarmTimer EXCEPT !.rem = @ - TickMs]
                         ELSE openAlarmTimer
    /\ openFor' = IF contact = "true" /\ openFor < OpenForCap
                  THEN Min(openFor + TickMs, OpenForCap) ELSE openFor
    /\ UNCHANGED <<trip, doorVars, settings, nreq, delayedTriggerTimer, safetyTimer,
                   reportVars, sreportVars, settingVars, openAlerts, oatChanged>>

CycleStep ==
    \/ triggerDoorPulse
    \/ \E c \in Cycles : setDelayedTriggerTimer(c)
    \/ \E c \in Cycles : delayedTriggerFires(c)
    \/ \E c \in Cycles : sendPulseWrite(c)
    \/ \E c \in Cycles : firstWriteSettles(c)
    \/ \E c \in Cycles : retryWrite(c)
    \/ \E c \in Cycles : retryWriteSettles(c)
    \/ \E c \in Cycles : setRecoveryTimer(c)
    \/ \E c \in Cycles : recoveryFires(c)
    \/ \E c \in Cycles : recoverySets(c)
    \/ \E c \in Cycles : safetyFires(c)
    \/ \E c \in Cycles : safetySetsButton(c)
    \/ \E c \in Cycles : safetyAlerts(c)

ContactStep ==
    \/ handleContact
    \/ \E r \in Reports : contactSets(r)
    \/ \E r \in Reports : contactSetsButton(r)
    \/ \E r \in Reports : contactSetsStatus(r)

StatusStep ==
    \/ handleStatus
    \/ \E s \in StatusReports : statusSets(s)

SettingsStep ==
    \/ onSettings
    \/ \E s \in SettingsChanges : configWriteSettles(s)

Next ==
    \/ CycleStep
    \/ ContactStep
    \/ StatusStep
    \/ SettingsStep
    \/ openAlarmFires
    \/ onDeleted
    \/ Tick

Spec == Init /\ [][Next]_vars

\* Trigger requests and contact reports.
NextCycle == CycleStep \/ ContactStep \/ Tick

SpecCycle == InitCycle /\ [][NextCycle]_vars

SpecPulse == InitPulse /\ [][NextCycle]_vars

\* What the event loop does of itself: a timer that is due fires, an await
\* resumes, the clock advances.  Requests and reports are the environment's.
Progress == (CycleStep /\ nreq' = nreq) \/ (ContactStep /\ nrep' = nrep) \/ Tick

\* One trigger cycle in which the event loop never stops.
SpecPulseLive == SpecPulse /\ WF_vars(Progress)

\* Contact reports and settings changes.
NextOpen == ContactStep \/ SettingsStep \/ openAlarmFires \/ Tick

SpecOpen == InitOpen /\ [][NextOpen]_vars

\* Status reports alone.
InitDecode ==
    /\ Start
    /\ settings \in [count_down : {0}, run_time : {1}, open_alarm_time : {0}]
    /\ limit = [req |-> 0, rep |-> 0, srep |-> MaxStatusReports, set |-> 0,
                del |-> FALSE, trip |-> FALSE]

NextDecode == StatusStep

SpecDecode == InitDecode /\ [][NextDecode]_vars

\* Settings changes alone.
InitSettings ==
    /\ Start
    /\ settings \in SettingsVals
    /\ limit = [req |-> 0, rep |-> 0, srep |-> 0, set |-> MaxSettings,
                del |-> FALSE, trip |-> FALSE]

NextSettings == SettingsStep

SpecSettings == InitSettings /\ [][NextSettings]_vars

\* One trigger request and contact reports, with the reports 'open', 'closed'
\* in a row followed.
InitTrip ==
    /\ Start
    /\ settings \in [count_down : CountDownVals, run_time : {1}, open_alarm_time : {0, 1}]
    /\ limit = [req |-> PulseRequests, rep |-> OpenReports, srep |-> 0, set |-> 0,
                del |-> FALSE, trip |-> TRUE]

NextTrip == CycleStep \/ ContactStep \/ openAlarmFires \/ Tick

SpecTrip == InitTrip /\ [][NextTrip]_vars

\* One trigger request, one contact report and the deletion of the device.
InitDelete ==
    /\ Start
    /\ settings \in [count_down : CountDownVals, run_time : {1}, open_alarm_time : {0, 1}]
    /\ limit = [req |-> PulseRequests, rep |-> PulseReports, srep |-> 0, set |-> 0,
                del |-> TRUE, trip |-> FALSE]

NextDelete == CycleStep \/ ContactStep \/ openAlarmFires \/ onDeleted \/ Tick

SpecDelete == InitDelete /\ [][NextDelete]_vars

\* ---- what the claims speak of ----
PendingCountdown == {c \in Cycles : cycle[c].pc = "countdown"}
PendingSafety == {c \in Cycles : cycle[c].pc = "safety"}
\* The safety timer of cycle c was armed: its pulse write succeeded.
Armed(c) == cycle[c].r1 \in {"ok", "timeout"} \/ cycle[c].r2 = "ok"

\* C1: at most one safety timer and at most one countdown timer are pending
\* at any time, for every sequence of trigger requests.
C1_AtMostOneTimerOfEachKind ==
    /\ Cardinality(PendingSafety) <= 1
    /\ Cardinality(PendingCountdown) <= 1

AllOver == \A c \in Cycles : cycle[c].pc \in {"idle", "done", "cancelled"}

\* C2: after the pulse of the latest trigger request, written with success,
\* and with no contact report since that pulse, the safety callback runs once
\* and one runtime alert is emitted; with a contact report equal to the
\* expected end state since the pulse, no runtime alert is emitted.
C2_AlertIffSilence ==
    \A c \in Cycles :
        (c = nreq /\ Armed(c) /\ AllOver /\ ~ReportsInFlight) =>
            /\ cycle[c].seen = {} => (cycle[c].firings = 1 /\ cycle[c].heard = 1)
            /\ cycle[c].exp \in cycle[c].seen => cycle[c].heard = 0

\* C3: once a contact report has been handled, no countdown timer and no
\* safety timer of a cycle requested before the report is pending.
C3_ReportEndsCycle ==
    \A c \in Cycles :
        (cycle[c].reported /\ ~ReportsInFlight) => cycle[c].pc \notin {"countdown", "safety"}

RunTimeMs == ParseIntOr(settings.run_time, DefaultRunTime) * 1000
FaultPcs == {"await_error", "recovery", "await_recover"}

\* C4: a cycle whose first pulse write timed out writes no second pulse,
\* never enters the fault path (status Error), and has its safety timer armed
\* with the expected end state of the pulse and the run time of the settings.
C4_TimeoutIsSuccess ==
    \A c \in Cycles :
        cycle[c].r1 = "timeout" =>
            /\ cycle[c].w = 1
            /\ cycle[c].r2 = "none"
            /\ cycle[c].pc \in {"safety", "cancelled", "await_button", "await_alarm", "done"}
            /\ cycle[c].pc = "safety" =>
                 (cycle[c].dur = RunTimeMs /\ cycle[c].exp \in {"true", "false"})

C4_Witness ==
    \E c \in Cycles : cycle[c].r1 = "timeout" /\ cycle[c].pc = "safety" /\ cycle[c].rem = 0

\* C5: a cycle writes at most two pulses, the second only after a
\* non-timeout error of the first and a delay of 500 ms, and after such an
\* error it writes the second.
C5_OneRetry ==
    \A c \in Cycles :
        /\ cycle[c].w <= 2
        /\ cycle[c].w = 2 => cycle[c].r1 = "error"
        /\ cycle[c].pc = "retry_delay" =>
             (cycle[c].dur = 500 /\ cycle[c].w = 1 /\ cycle[c].r1 = "error")
        /\ (cycle[c].r1 = "error" /\ cycle[c].pc # "retry_delay") => cycle[c].w = 2
        /\ cycle[c].r2 # "none" => cycle[c].pc # "await_write2"

C5_Witness ==
    \E c \in Cycles : cycle[c].w = 2 /\ cycle[c].r1 = "error" /\ cycle[c].r2 = "ok"

BothFailed(c) == cycle[c].r1 = "error" /\ cycle[c].r2 \in {"error", "timeout"}
FromContact(v) == IF v = "true" THEN "open" ELSE "closed"

\* C6: when the pulse write and its retry have failed, the status is set to
\* Error and a recovery timer of 3 s is set; whenever the status is Error such
\* a timer is pending or its callback is running; the callback sets the
\* status to Open or Closed by the contact value it read when the timer
\* fired, and with no other event that is the status the cycle ends with;
\* the status does not stay Error forever.
C6_FaultRecovers ==
    /\ [](\A c \in Cycles :
            /\ BothFailed(c) => cycle[c].pc \in FaultPcs \cup {"done"}
            /\ cycle[c].pc = "recovery" =>
                 (cycle[c].dur = 3000 /\ cycle[c].rem <= 3000 /\ BothFailed(c))
            /\ (BothFailed(c) /\ cycle[c].pc = "done" /\ c = nreq
                  /\ ~cycle[c].overlap /\ ~cycle[c].reported)
                 => status = FromContact(contact))
    /\ [](status = "error" => \E c \in Cycles : cycle[c].pc \in {"recovery", "await_recover"})
    /\ []<>(status # "error")
    /\ [][\A c \in Cycles :
            /\ (cycle[c].pc = "await_error" /\ cycle'[c].pc # "await_error")
                 => (status' = "error" /\ cycle'[c].pc = "recovery"
                       /\ cycle'[c].rem = 3000)
            /\ (cycle[c].pc = "recovery" /\ cycle'[c].pc # "recovery")
                 => (cycle[c].rem = 0 /\ cycle'[c].pc = "await_recover"
                       /\ cycle'[c].cur = contact)
            /\ (cycle[c].pc = "await_recover" /\ cycle'[c].pc # "await_recover")
                 => (status' = FromContact(cycle[c].cur) /\ cycle'[c].pc = "done")]_vars

C6_Witness ==
    \E c \in Cycles : BothFailed(c) /\ cycle[c].pc = "done" /\ contact = "true"
                      /\ status = "open" /\ ~cycle[c].reported

\* C7: a second request made while the first cycle was in its countdown, its
\* pulse write or its confirmation wait, written with success and followed
\* by no contact report: when all is over, one safety callback has run, once,
\* and it carried the expected end state of the second request.
C7_OnlySecondFires ==
    (nreq = 2 /\ cycle[2].restart /\ Armed(2) /\ ~cycle[2].reported /\ AllOver)
        => LET ran == {k \in Cycles : cycle[k].fired > 0}
           IN /\ Cardinality(ran) = 1
              /\ \A k \in ran : cycle[k].fired = 1 /\ cycle[k].exp = cycle[2].exp

SettingsInFlight == \E s \in SettingsChanges : setting[s].pc = "await_cfg"
OpenAlarmMs == ParseIntOr(settings.open_alarm_time, DefaultOpenAlarm) * 1000

\* C8: in every state in which no handler is part-way through, an
\* open-time alarm timer is pending only if the contact is open and
\* open_alarm_time > 0.
C8_OpenTimerOnlyWhenOpen ==
    (~ReportsInFlight /\ ~SettingsInFlight) =>
        (openAlarmTimer.on => (contact = "true" /\ settings.open_alarm_time > 0))

\* C9: when onSettings returns for a change of open_alarm_time made while the
\* contact is open, the open-time alarm timer runs for the new value of the
\* setting, and is not pending if the new value is 0.
C9_RestartWithNewValue ==
    [][\A s \in SettingsChanges :
         (/\ setting[s].pc = "await_cfg"
          /\ setting'[s].pc = "done"
          /\ Includes(setting[s].changedKeys, "open_alarm_time")
          /\ contact = "true")
         => openAlarmTimer' =
              IF setting[s].new.open_alarm_time > 0
              THEN [on |-> TRUE, rem |-> setting[s].new.open_alarm_time * 1000,
                    dur |-> setting[s].new.open_alarm_time * 1000]
              ELSE NoTimer]_vars

\* C10: with open_alarm_time = T > 0 unchanged since the contact became open,
\* an open-time alert has been emitted once the contact has been open for
\* more than T seconds; and an alert is emitted only while the contact is
\* open.
C10_AlertAfterOpenTime ==
    /\ []((contact = "true" /\ ~oatChanged /\ OpenAlarmMs > 0 /\ openFor > OpenAlarmMs)
            => openAlerts >= 1)
    /\ [][openAlerts' > openAlerts => contact = "true"]_vars

\* Writes of the pulse issued so far, runtime alerts emitted so far.
Writes == [c \in Cycles |-> cycle[c].w]
Alerts == [c \in Cycles |-> cycle[c].alerts]

\* C11: once the device is deleted no timer of it is pending, and no step
\* changes the status, writes a pulse, arms a timer or emits an alert.
C11_NothingAfterDeleted ==
    /\ [](deleted => ~TimerPending)
    /\ [][deleted =>
            /\ status' = status
            /\ Writes' = Writes
            /\ Alerts' = Alerts /\ openAlerts' = openAlerts
            /\ \A c \in Cycles : cycle'[c].pc \in TimerPcs => cycle[c].pc \in TimerPcs
            /\ openAlarmTimer'.on => openAlarmTimer.on]_vars

\* C12: when a contact report 'open' and then a report 'closed' have been
\* handled in a row and no await on the host is outstanding, the contact is
\* closed, the status is Closed, no cycle
\* is under way (Idle), and no countdown, safety or open-alarm timer is
\* pending.
C12_OpenClosedRoundTrip ==
    (trip = "closed" /\ ~HostAwaiting) =>
        /\ contact = "false"
        /\ status = "closed"
        /\ ~Moving
        /\ PendingCountdown = {} /\ PendingSafety = {}
        /\ ~openAlarmTimer.on

\* C13: with no status report, the status is '2' while a countdown timer is
\* pending and Moving while a pulse write is outstanding (and no contact
\* report has arrived since the request) or the safety timer is pending; it becomes Open or Closed only in the last step of a contact
\* report's handler, and Alarm only in the callback of a safety timer that
\* found a discrepancy.
C13_StatusFollowsPhase ==
    /\ [](\A c \in Cycles :
            /\ cycle[c].pc = "countdown" => status = "2"
            /\ (cycle[c].pc \in {"await_write1", "await_write2"} /\ ~cycle[c].reported)
                 => status = "moving"
            /\ cycle[c].pc = "safety" => status = "moving")
    /\ [][(status' # status /\ status' \in {"open", "closed"})
            => \E r \in Reports : report[r].pc = "await_status" /\ report'[r].pc = "done"]_vars
    /\ [][(status' # status /\ status' = "1")
            => \E c \in Cycles : /\ cycle[c].pc = "await_alarm"
                                 /\ cycle'[c].pc = "done"
                                 /\ Discrepancy(cycle[c].cur, cycle[c].exp)]_vars

\* The writes of onSettings call s to data point dp.
WritesTo(s, dp) == {k \in 1..Len(setting[s].sent) : setting[s].sent[k].dp = dp}

\* C14: when onSettings has returned, each changed key among count_down,
\* run_time and open_alarm_time was written once to its data point (2, 4, 5)
\* with its new value, nothing else was written, whatever writes failed, and
\* the handler returned true.
C14_OneWritePerChangedKey ==
    \A s \in SettingsChanges :
        setting[s].pc = "done" =>
            /\ \A k \in {"count_down", "run_time", "open_alarm_time"} :
                 LET dp == CASE k = "count_down" -> 2 [] k = "run_time" -> 4 [] OTHER -> 5
                 IN /\ Cardinality(WritesTo(s, dp)) =
                         (IF Includes(setting[s].changedKeys, k) THEN 1 ELSE 0)
                    /\ \A w \in WritesTo(s, dp) : setting[s].sent[w].v = setting[s].new[k]
            /\ \A w \in 1..Len(setting[s].sent) : setting[s].sent[w].dp \in {2, 4, 5}
            /\ setting[s].ret = "true"

C14_Witness ==
    \E s \in SettingsChanges :
        /\ setting[s].pc = "done"
        /\ Len(setting[s].sent) = 3
        /\ setting[s].failed >= 1
        /\ Includes(setting[s].changedKeys, OtherKey)

\* The big-endian unsigned integer of at most three bytes.
RECURSIVE Unsigned(_)
Unsigned(chunks) ==
    IF chunks = <<>> THEN 0
    ELSE Unsigned(SubSeq(chunks, 1, Len(chunks) - 1)) * 256 + chunks[Len(chunks)]

\* v is the big-endian unsigned integer of one to four bytes: it is not
\* negative, its last eight bits are the last byte and the bits above them
\* are the unsigned integer of the bytes before.
IsUnsigned(v, chunks) ==
    /\ v >= 0
    /\ v % 256 = chunks[Len(chunks)]
    /\ v \div 256 = Unsigned(SubSeq(chunks, 1, Len(chunks) - 1))

\* C15: a report of datatype 2 with one to four bytes is decoded to the
\* big-endian unsigned integer of its bytes, a number in 0..2^32-1.
C15_DecodesUnsigned ==
    \A s \in StatusReports :
        (sreport[s].pc = "await_status" /\ sreport[s].data.datatype = 2) =>
            /\ sreport[s].value.type = "number"
            /\ IsUnsigned(sreport[s].value.v, sreport[s].data.data)

\* C16: the countdown timer and the safety timer are never pending at the
\* same time.
C16_CountdownExcludesSafety == ~(PendingCountdown # {} /\ PendingSafety # {})

\* C17: whenever no handler is suspended, the status Open goes with an open
\* contact and the status Closed with a contact that is not open (closed, or
\* never reported, which the code reads as closed).
C17_StatusAgreesWithContact ==
    ~HostAwaiting =>
        /\ status = "open" => contact = "true"
        /\ status = "closed" => contact # "true"

\* C18: a timeout of the retry is taken as success, as a timeout of the
\* first write is: the cycle does not enter the fault path (status Error,
\* recovery timer) and goes on to its safety timer.
C18_RetryTimeoutIsSuccess ==
    /\ [](\A c \in Cycles :
            (cycle[c].r1 = "error" /\ cycle[c].r2 = "timeout") =>
                cycle[c].pc \in {"safety", "cancelled", "await_button", "await_alarm", "done"})
    /\ [][\A c \in Cycles :
            (cycle[c].pc = "await_write2" /\ cycle'[c].r2 = "timeout") =>
                (cycle'[c].pc = "safety" /\ cycle'[c].dur = RunTimeMs)]_vars

\* C19: the countdown callback, sendPulse, which writes the pulse, runs only
\* for a cycle that no later trigger request and no contact report has
\* superseded while its countdown was pending or being set: a cancelled
\* countdown never sends its pulse, and of the requests made within one
\* countdown only the last writes.
C19_SupersededSendsNoPulse ==
    [][\A c \in Cycles :
         (cycle[c].pc = "countdown" /\ cycle'[c].pc = "await_moving") =>
             (c = nreq /\ ~cycle[c].reported)]_vars

\* Every trigger request made so far ended with both writes failed.
OnlyFailedCycles ==
    nreq > 0 /\ \A c \in Cycles : cycle[c].pc # "idle" => BothFailed(c)

\* C20: a cycle whose pulse write and retry both failed never has a safety
\* timer, its safety callback never runs and it emits no runtime alert; the
\* only timer it has is the recovery timer of 3 s; and when every cycle
\* ended so, the status is never Alarm.
C20_FailedCycleArmsNoSafety ==
    /\ \A c \in Cycles :
         BothFailed(c) =>
             /\ cycle[c].pc \notin {"safety", "await_button", "await_alarm"}
             /\ safetyTimer # c
             /\ cycle[c].fired = 0
             /\ cycle[c].alerts = 0
             /\ cycle[c].pc \in TimerPcs =>
                  (cycle[c].pc = "recovery" /\ cycle[c].dur = RecoveryDelayMs)
    /\ OnlyFailedCycles => status # "1"

C20_Witness ==
    \E c \in Cycles : BothFailed(c) /\ cycle[c].pc = "recovery" /\ cycle[c].rem = 0

\* ---- the revision without retry and open-time alarm ----
\* src/drivers/Garage_Door_Opener/device.js, over the same variables: the
\* fields r2, openAlarmTimer and the records of settings changes are never
\* written by it.

\* triggerDoorPulse to its first await.
Opener_triggerDoorPulse ==
    /\ ~deleted
    /\ nreq < limit.req
    /\ LET c == nreq + 1
           stopped == clearTimeout(clearTimeout(cycle, delayedTriggerTimer), safetyTimer)
           cleared == [k \in Cycles |-> [stopped[k] EXCEPT !.seen = {}, !.firings = 0,
                                                           !.heard = 0]]
           countdownSeconds == ParseIntOr(settings.count_down, DefaultCountdown)
       IN /\ nreq' = c
          /\ delayedTriggerTimer' = 0
          /\ safetyTimer' = 0
          /\ cycle' = IF countdownSeconds <= 0
                      THEN [cleared EXCEPT ![c].pc = "await_moving",
                                           ![c].overlap = Unfinished,
                                           ![c].restart = Moving,
                                           ![c].reported = ReportsInFlight]
                      ELSE [cleared EXCEPT ![c].pc = "await_cd",
                                           ![c].dur = countdownSeconds * 1000,
                                           ![c].overlap = Unfinished,
                                           ![c].restart = Moving,
                                           ![c].reported = ReportsInFlight]
    /\ trip' = "none"
    /\ UNCHANGED <<doorVars, settings, openAlarmTimer, reportVars, sreportVars,
                   settingVars, openVars>>

\* setCapabilityValue('2') has resumed: the countdown timer is set.
Opener_setDelayedTriggerTimer(c) ==
    /\ cycle[c].pc = "await_cd"
    /\ status' = "2"
    /\ cycle' = [cycle EXCEPT ![c].pc = "countdown", ![c].rem = cycle[c].dur]
    /\ delayedTriggerTimer' = c
    /\ trip' = "none"
    /\ UNCHANGED <<contact, button, settings, nreq, safetyTimer, openAlarmTimer,
                   reportVars, sreportVars, settingVars, openVars>>

\* The countdown timer fires: sendPulse runs to its first await.
Opener_delayedTriggerFires(c) ==
    /\ cycle[c].pc = "countdown"
    /\ cycle[c].rem = 0
    /\ cycle' = [cycle EXCEPT ![c].pc = "await_moving", ![c].dur = 0]
    /\ delayedTriggerTimer' = Fired(delayedTriggerTimer, c)
    /\ trip' = "none"
    /\ UNCHANGED <<doorVars, settings, nreq, safetyTimer, openAlarmTimer,
                   reportVars, sreportVars, settingVars, openVars>>

\* setCapabilityValue('moving') has resumed: the expected end state is
\* computed and the pulse is written.
Opener_sendPulseWrite(c) ==
    /\ cycle[c].pc = "await_moving"
    /\ status' = "moving"
    /\ LET isCurrentlyOpen == (contact = "true")
           expectedEndState == Not(BoolStr(isCurrentlyOpen))
       IN cycle' = [cycle EXCEPT ![c].pc = "await_write1", ![c].exp = expectedEndState,
                                 ![c].w = 1,
                                 ![c].seen = IF c = nreq THEN InFlightValues ELSE {}]
    /\ trip' = "none"
    /\ UNCHANGED <<contact, button, settings, nreq, delayedTriggerTimer, safetyTimer,
                   openAlarmTimer, reportVars, sreportVars, settingVars, openVars>>

\* startSafetyTimer(expectedState), called by cycle c whose record is in cyc.
Opener_startSafetyTimer(cyc, c) ==
    LET cleared == clearTimeout(cyc, safetyTimer)
        runTimeSetting == ParseIntOr(settings.run_time, DefaultRunTime)
    IN /\ cycle' = [cleared EXCEPT ![c].pc = "safety",
                                   ![c].rem = runTimeSetting * 1000,
                                   ![c].dur = runTimeSetting * 1000]
       /\ safetyTimer' = c

\* (mutant) a second pulse is written when the first has settled
Opener_writeSettles_Twice(c) ==
    /\ cycle[c].pc = "await_write1"
    /\ \E outcome \in WriteOutcomes :
         Opener_startSafetyTimer([cycle EXCEPT ![c].r1 = outcome, ![c].w = 2], c)
    /\ trip' = "none"
    /\ UNCHANGED <<doorVars, settings, nreq, delayedTriggerTimer, openAlarmTimer,
                   reportVars, sreportVars, settingVars, openVars>>

\* writeBool has settled: a rejection is caught and logged by
\* .catch(this.error), and in every case the safety timer is started.
Opener_writeSettles(c) ==
    /\ cycle[c].pc = "await_write1"
    /\ \E outcome \in WriteOutcomes :
         Opener_startSafetyTimer([cycle EXCEPT ![c].r1 = outcome], c)
    /\ trip' = "none"
    /\ UNCHANGED <<doorVars, settings, nreq, delayedTriggerTimer, openAlarmTimer,
                   reportVars, sreportVars, settingVars, openVars>>

\* The safety timer fires: without a discrepancy the callback is over, with
\* one it calls setCapabilityValue('garage_Door_Button', currentContact).
Opener_safetyFires(c) ==
    /\ cycle[c].pc = "safety"
    /\ cycle[c].rem = 0
    /\ LET currentContact == contact
           ran == [k \in Cycles |-> IF k = nreq /\ cycle[k].w > 0
                                    THEN [cycle[k] EXCEPT !.firings = @ + 1]
                                    ELSE cycle[k]]
       IN cycle' = [ran EXCEPT
                      ![c].pc = IF currentContact # cycle[c].exp
                                THEN "await_button" ELSE "done",
                      ![c].cur = IF currentContact # cycle[c].exp
                                 THEN currentContact ELSE "none",
                      ![c].fired = cycle[c].fired + 1,
                      ![c].dur = 0]
    /\ safetyTimer' = Fired(safetyTimer, c)
    /\ trip' = "none"
    /\ UNCHANGED <<doorVars, settings, nreq, delayedTriggerTimer, openAlarmTimer,
                   reportVars, sreportVars, settingVars, openVars>>

\* The button has been forced to the contact value: setCapabilityValue('1').
Opener_safetySetsButton(c) ==
    /\ cycle[c].pc = "await_button"
    /\ button' = cycle[c].cur
    /\ cycle' = [cycle EXCEPT ![c].pc = "await_alarm"]
    /\ trip' = "none"
    /\ UNCHANGED <<contact, status, settings, nreq, delayedTriggerTimer, safetyTimer,
                   openAlarmTimer, reportVars, sreportVars, settingVars, openVars>>

\* The status is Alarm ('1') and the runtime alert goes to the flow card
\* runtime_alarm_triggered; its trigger is not awaited, and the callback is
\* over.
Opener_safetyAlerts(c) ==
    /\ cycle[c].pc = "await_alarm"
    /\ status' = "1"
    /\ LET told == [k \in Cycles |-> IF k = nreq /\ cycle[k].w > 0
                                      THEN [cycle[k] EXCEPT !.heard = @ + 1]
                                      ELSE cycle[k]]
       IN cycle' = [told EXCEPT ![c].pc = "done", ![c].cur = "none",
                                ![c].alerts = cycle[c].alerts + 1]
    /\ trip' = "none"
    /\ UNCHANGED <<contact, button, settings, nreq, delayedTriggerTimer, safetyTimer,
                   openAlarmTimer, reportVars, sreportVars, settingVars, openVars>>

\* A contact report arrives: both timers are cleared and
\* setCapabilityValue('alarm_contact', isOpen) is called.
Opener_handleContact ==
    /\ ~deleted
    /\ nrep < limit.rep
    /\ \E data \in ContactPayloads :
         LET value == getDataValue(data)
             isOpen == Truthy(value)
             cleared == clearTimeout(clearTimeout(cycle, safetyTimer), delayedTriggerTimer)
         IN /\ data.dp = dataPoints.garageDoorContact
            /\ trip' = IF ~limit.trip \/ ReportsInFlight THEN "none"
                       ELSE IF isOpen THEN "open"
                       ELSE IF trip = "open" THEN "closed" ELSE "none"
            /\ report' = [report EXCEPT ![nrep + 1] = [pc |-> "await_contact",
                                                       isOpen |-> isOpen]]
            /\ cycle' = [c \in Cycles |->
                           IF cleared[c].pc = "idle" THEN cleared[c]
                           ELSE [cleared[c] EXCEPT
                                   !.reported = TRUE,
                                   !.seen = IF c = nreq /\ cycle[c].w > 0
                                                 /\ cycle[c].firings = 0
                                            THEN @ \cup {BoolStr(isOpen)} ELSE @]]
    /\ nrep' = nrep + 1
    /\ safetyTimer' = 0
    /\ delayedTriggerTimer' = 0
    /\ UNCHANGED <<doorVars, settings, nreq, openAlarmTimer, sreportVars,
                   settingVars, openVars>>

\* alarm_contact is set; setCapabilityValue('garage_Door_Button', isOpen).
Opener_contactSets(r) ==
    /\ report[r].pc = "await_contact"
    /\ contact' = BoolStr(report[r].isOpen)
    /\ report' = [report EXCEPT ![r].pc = "await_button"]
    /\ IF report[r].isOpen = (contact = "true")
       THEN UNCHANGED openVars
       ELSE /\ openFor' = 0
            /\ openAlerts' = 0
            /\ oatChanged' = FALSE
    /\ UNCHANGED <<trip, button, status, settings, cycleVars, openAlarmTimer, nrep,
                   sreportVars, settingVars>>

\* The button is set; setCapabilityValue(isOpen ? 'open' : 'closed').
Opener_contactSetsButton(r) ==
    /\ report[r].pc = "await_button"
    /\ button' = BoolStr(report[r].isOpen)
    /\ report' = [report EXCEPT ![r].pc = "await_status"]
    /\ UNCHANGED <<trip, contact, status, settings, cycleVars, openAlarmTimer, nrep,
                   sreportVars, settingVars, openVars>>

\* The status is set and the handler is over.
Opener_contactSetsStatus(r) ==
    /\ report[r].pc = "await_status"
    /\ status' = IF report[r].isOpen THEN "open" ELSE "closed"
    /\ report' = [report EXCEPT ![r] = [pc |-> "done", isOpen |-> FALSE]]
    /\ UNCHANGED <<trip, contact, button, settings, cycleVars, openAlarmTimer, nrep,
                   sreportVars, settingVars, openVars>>

\* A status report with one of the given payloads arrives:
\* setCapabilityValue(value.toString()) is called.
Opener_handleStatusOf(payloads) ==
    /\ ~deleted
    /\ nsrep < limit.srep
    /\ \E data \in payloads :
         /\ data.dp = dataPoints.status
         /\ sreport' = [sreport EXCEPT ![nsrep + 1] =
                          [pc |-> "await_status", data |-> data,
                           value |-> getDataValue(data)]]
    /\ nsrep' = nsrep + 1
    /\ UNCHANGED <<trip, doorVars, settings, cycleVars, openAlarmTimer, reportVars,
                   settingVars, openVars>>

Opener_statusSets(s) ==
    /\ sreport[s].pc = "await_status"
    /\ status' = toString(sreport[s].value)
    /\ sreport' = [sreport EXCEPT ![s] = [IdleStatusReport EXCEPT !.pc = "done"]]
    /\ UNCHANGED <<trip, contact, button, settings, cycleVars, openAlarmTimer, reportVars,
                   nsrep, settingVars, openVars>>

\* ---- the two revisions side by side ----
\* The status reports of the comparison: those of an enum value.
EnumStatusPayloads == {data \in StatusPayloads : data.datatype = 4}

\* The steps of src/unnamed/part_000 when every pulse write is acknowledged.
NextAcked ==
    \/ triggerDoorPulse
    \/ \E c \in Cycles : setDelayedTriggerTimer(c)
    \/ \E c \in Cycles : delayedTriggerFires(c)
    \/ \E c \in Cycles : sendPulseWrite(c)
    \/ \E c \in Cycles : firstWriteSettles(c) /\ cycle'[c].r1 = "ok"
    \/ \E c \in Cycles : safetyFires(c)
    \/ \E c \in Cycles : safetySetsButton(c)
    \/ \E c \in Cycles : safetyAlerts(c)
    \/ handleContact
    \/ \E r \in Reports : contactSets(r)
    \/ \E r \in Reports : contactSetsButton(r)
    \/ \E r \in Reports : contactSetsStatus(r)
    \/ handleStatusOf(EnumStatusPayloads)
    \/ \E s \in StatusReports : statusSets(s)
    \/ Tick

\* The steps of src/drivers/Garage_Door_Opener/device.js when every pulse
\* write is acknowledged.
Opener_NextAcked ==
    \/ Opener_triggerDoorPulse
    \/ \E c \in Cycles : Opener_setDelayedTriggerTimer(c)
    \/ \E c \in Cycles : Opener_delayedTriggerFires(c)
    \/ \E c \in Cycles : Opener_sendPulseWrite(c)
    \/ \E c \in Cycles : Opener_writeSettles(c) /\ cycle'[c].r1 = "ok"
    \/ \E c \in Cycles : Opener_safetyFires(c)
    \/ \E c \in Cycles : Opener_safetySetsButton(c)
    \/ \E c \in Cycles : Opener_safetyAlerts(c)
    \/ Opener_handleContact
    \/ \E r \in Reports : Opener_contactSets(r)
    \/ \E r \in Reports : Opener_contactSetsButton(r)
    \/ \E r \in Reports : Opener_contactSetsStatus(r)
    \/ Opener_handleStatusOf(EnumStatusPayloads)
    \/ \E s \in StatusReports : Opener_statusSets(s)
    \/ Tick

\* One trigger cycle, contact reports and status reports, with the open-time
\* alarm disabled.
InitEquiv ==
    /\ Start
    /\ settings \in [count_down : CountDownVals, run_time : {1}, open_alarm_time : {0}]
    /\ limit = [req |-> PulseRequests, rep |-> PulseReports, srep |-> MaxStatusReports,
                set |-> 0, del |-> FALSE, trip |-> FALSE]

\* Either revision may take each step.
NextEquiv == NextAcked \/ Opener_NextAcked

SpecEquiv == InitEquiv /\ [][NextEquiv]_vars

\* C21: with every pulse write acknowledged and the open-time alarm
\* disabled, from every state the two revisions reach, a step is a step of
\* one revision exactly if it is a step of the other: the same pulse writes,
\* capability values, pending timers and runtime alerts follow from every
\* sequence of trigger requests, contact reports, status reports and timer
\* firings.
C21_RevisionsEquivalent == [][NextAcked <=> Opener_NextAcked]_vars

C21_Witness ==
    /\ \E c \in Cycles : cycle[c].alerts = 1 /\ cycle[c].w = 1
    /\ \E r \in Reports : report[r].pc = "done"
    /\ \E s \in StatusReports : sreport[s].pc = "done"

====
